---- MODULE Spec2Model ----
(***************************************************************************)
(* Model of the read handlers of the crud controller package               *)
(* (GetListHandler, GetByIDHandler, GetFieldHandler) and their helpers      *)
(* buildQueryOptions, getModelByID, getCount and getAssociationCount.       *)
(*                                                                         *)
(* One request is followed from its arrival to its response.  The          *)
(* persistence layer (package service) and the request binder (gin) are    *)
(* external: their answers are nondeterministic choices, and every call    *)
(* the handlers make to the persistence layer is recorded in `calls`.      *)
(***************************************************************************)
EXTENDS Integers, Sequences, FiniteSets, TLC

\* ------------------------------------------------------------------ bounds

\* longest ?preload=...&preload=... list in a request
MaxPreload == 2
\* largest number of rows the store returns from a fetch
MaxRecords == 3
\* largest small total the store returns from a count
MaxTotal == 1

\* ------------------------------------------------------- request parameters

Limits == {-1, 0, 10}
Offsets == {0, 5}
OrderFields == {"", "id"}
FilterFields == {"", "name"}
FilterValues == {"", "John"}
PreloadPaths == {"Product", "Items"}
IDs == {"", "123"}

RECURSIVE SeqsUpTo(_, _)
SeqsUpTo(S, n) ==
    IF n = 0 THEN {<<>>}
    ELSE LET shorter == SeqsUpTo(S, n - 1)
         IN  shorter \cup {Append(s, x) : s \in {t \in shorter : Len(t) = n - 1}, x \in S}

\* type GetRequestBody struct
GetRequestBody ==
    [Limit : Limits, Offset : Offsets, OrderBy : OrderFields, Descending : BOOLEAN,
     FilterBy : FilterFields, FilterValue : FilterValues,
     Preload : SeqsUpTo(PreloadPaths, MaxPreload), Total : BOOLEAN]

\* var request GetRequestBody (the zero value)
ZeroRequest ==
    [Limit |-> 0, Offset |-> 0, OrderBy |-> "", Descending |-> FALSE,
     FilterBy |-> "", FilterValue |-> "", Preload |-> <<>>, Total |-> FALSE]

\* ------------------------------------------------------------ query options

\* service.WithPage(limit, offset)
WithPage(limit, offset) == [type |-> "Page", limit |-> limit, offset |-> offset]
\* service.OrderBy(field, descending)
OrderBy(f, descending) == [type |-> "OrderBy", field |-> f, desc |-> descending]
\* service.FilterBy(field, value)
FilterBy(f, value) == [type |-> "FilterBy", field |-> f, value |-> value]
\* service.Preload(field, options...)
Preload(f, opts) == [type |-> "Preload", path |-> f, options |-> opts]

\* the preload loop putting each new Preload in front of the options built so far
RECURSIVE appendPreloadsInFront(_, _)
appendPreloadsInFront(opts, paths) ==
    IF paths = <<>> THEN opts
    ELSE appendPreloadsInFront(<<Preload(Head(paths), <<>>)>> \o opts, Tail(paths))

\* for _, field := range request.Preload { options = append(options, service.Preload(field)) }
RECURSIVE appendPreloads(_, _)
appendPreloads(opts, paths) ==
    IF paths = <<>> THEN opts
    ELSE appendPreloads(Append(opts, Preload(Head(paths), <<>>)), Tail(paths))

\* buildQueryOptions with the filter test written with || instead of &&
buildQueryOptionsEitherFilter(req) ==
    LET o0 == <<>>
        o1 == IF req.Limit > 0 THEN Append(o0, WithPage(req.Limit, req.Offset)) ELSE o0
        o2 == IF req.OrderBy # "" THEN Append(o1, OrderBy(req.OrderBy, req.Descending)) ELSE o1
        o3 == IF req.FilterBy # "" \/ req.FilterValue # ""
              THEN Append(o2, FilterBy(req.FilterBy, req.FilterValue)) ELSE o2
    IN  appendPreloads(o3, req.Preload)

buildQueryOptions(req) ==
    LET o0 == <<>>
        o1 == IF req.Limit > 0 THEN Append(o0, WithPage(req.Limit, req.Offset)) ELSE o0
        o2 == IF req.OrderBy # "" THEN Append(o1, OrderBy(req.OrderBy, req.Descending)) ELSE o1
        o3 == IF req.FilterBy # "" /\ req.FilterValue # ""
              THEN Append(o2, FilterBy(req.FilterBy, req.FilterValue)) ELSE o2
    IN  appendPreloads(o3, req.Preload)

\* --------------------------------------------------------------- responses

CodeBadRequest == "BadRequest"
CodeProcessFailed == "ProcessFailed"

NoErr == "nil"
ErrMissingID == "ErrMissingID"
ErrBind == "bind error"
ErrFetch == "fetch error"
ErrCount == "count error"

NoData == [shape |-> "none"]
ListData(d) == [shape |-> "list", list |-> d]
ModelData(m) == [shape |-> "model", model |-> m]
FieldData(v) == [shape |-> "field", value |-> v]

NoResponse == [kind |-> "none", code |-> "", err |-> NoErr, data |-> NoData, addition |-> <<>>]
\* ResponseError(c, code, err)
ResponseError(code, err) ==
    [kind |-> "error", code |-> code, err |-> err, data |-> NoData, addition |-> <<>>]
\* fieldValue.Interface() on the zero Value panics: no envelope is written
Panicked == [kind |-> "panic", code |-> "", err |-> NoErr, data |-> NoData, addition |-> <<>>]
\* ResponseSuccess(c, data, addition...)
ResponseSuccess(data, add) ==
    [kind |-> "success", code |-> "", err |-> NoErr, data |-> data, addition |-> add]

\* gin.H{"total": total}
TotalAddendum(n) == [key |-> "total", total |-> n, err |-> NoErr]
\* gin.H{"totalError": err.Error()}
TotalErrorAddendum(e) == [key |-> "totalError", total |-> 0, err |-> e]

\* ------------------------------------------------------------- record type

\* rows the store can return: <<>>, <<"r1">>, <<"r1","r2">>, ...
RowName(i) == IF i = 1 THEN "r1" ELSE IF i = 2 THEN "r2" ELSE IF i = 3 THEN "r3" ELSE "r4"
Rows(n) == [i \in 1..n |-> RowName(i)]
Collections == {Rows(n) : n \in 0..MaxRecords}

\* the record type T: an id, a has-many relation Orders and a has-one Profile
DeclaredFields == {"Orders", "Profile"}
\* reflect.Value.Kind() of each declared field
FieldKind == [f \in DeclaredFields |-> IF f = "Orders" THEN "Slice" ELSE "Struct"]
\* var model T (the zero value)
ZeroModel == [ID |-> "", Orders |-> <<>>, Profile |-> <<>>]
\* the records the store can hold under a given id
StoredModels(i) == {[ID |-> i, Orders |-> o, Profile |-> <<"bio">>] : o \in Collections}

\* the field names nested routes are registered with; "bogus" names no field of T
RouteFields == {"orders", "profile", "bogus"}
\* the resolver's failure: no declared field matches the name
UnknownField == "UnknownField"
\* NameToField(field, *new(T)): the route's field name to the declared field
NameToField(name) ==
    IF name = "orders" THEN "Orders"
    ELSE IF name = "profile" THEN "Profile"
    ELSE UnknownField
\* the route tables a program may register, in registration order
RouteTables == {<<"orders", "profile">>, <<"orders", "bogus", "profile">>}
\* no handler has been built for the route
NotRegistered == ""

\* reflect.ValueOf(model).Elem().FieldByName(field): the zero Value (Kind
\* Invalid) when T has no field of that name
NoValue == [kind |-> "Unset", value |-> <<>>]
FieldByName(m, f) ==
    IF f \in DeclaredFields THEN [kind |-> FieldKind[f], value |-> m[f]]
    ELSE [kind |-> "Invalid", value |-> <<>>]

\* the totals the store can answer a count with: small ones and a large one
Totals == (0..MaxTotal) \cup {42}

\* ------------------------------------------------------ persistence calls

\* One entry of `calls`: the operation, its arguments and the store's answer.
\* service.GetMany[T](c, &dest, options...)
FetchManyCall(opts, e, rows) ==
    [op |-> "FetchMany", id |-> "", model |-> ZeroModel, field |-> "", options |-> opts,
     err |-> e, rows |-> rows, got |-> ZeroModel, total |-> 0]
\* service.GetByID[T](c, id, &model, options...)
FetchByIDCall(i, opts, e, m) ==
    [op |-> "FetchByID", id |-> i, model |-> ZeroModel, field |-> "", options |-> opts,
     err |-> e, rows |-> <<>>, got |-> m, total |-> 0]
\* service.Count[T](ctx, option...)
CountCall(opts, e, n) ==
    [op |-> "Count", id |-> "", model |-> ZeroModel, field |-> "", options |-> opts,
     err |-> e, rows |-> <<>>, got |-> ZeroModel, total |-> n]
\* service.CountAssociations(ctx, model, field, options...)
CountAssociationCall(m, f, opts, e, n) ==
    [op |-> "CountAssociation", id |-> "", model |-> m, field |-> f, options |-> opts,
     err |-> e, rows |-> <<>>, got |-> ZeroModel, total |-> n]

\* ------------------------------------------------------------------- state

VARIABLES
    phase,       \* "startup" (routes being registered), "serving" or "fatal"
    pending,     \* the field routes still to register, in order
    resolutions, \* route -> how many times NameToField ran for it
    handlers,    \* route -> the field captured by the GetFieldHandler closure
    parked,      \* the locals of the other request in flight, while it is not running
    route,       \* the handler serving the request: "List", "GetByID" or a field route
    id,          \* c.Param(idParam)
    pc,          \* the request's position in its handler
    request,     \* var request GetRequestBody
    options,     \* options := buildQueryOptions(request)
    dest,        \* var dest []*T
    model,       \* the *T returned by getModelByID
    fieldValue,  \* fieldValue := reflect.ValueOf(model).Elem().FieldByName(field)
    addition,    \* var addition []gin.H
    calls,       \* the persistence calls made for the request, in order
    response,    \* the envelope written to the client
    trace        \* the positions the request has been through, in order

vars == <<phase, pending, resolutions, handlers, parked, route, id, pc, request,
          options, dest, model, fieldValue, addition, calls, response, trace>>

\* what no step of the running request writes
outside == <<phase, pending, resolutions, handlers, parked>>

\* the locals of a request no handler has started on
IdleLocals ==
    [route |-> "none", id |-> "", pc |-> "Idle", request |-> ZeroRequest,
     options |-> <<>>, dest |-> <<>>, model |-> ZeroModel, fieldValue |-> NoValue,
     addition |-> <<>>, calls |-> <<>>, response |-> NoResponse, trace |-> <<>>]

Routes == {"List", "GetByID"} \cup RouteFields

Init ==
    /\ phase = "startup"
    /\ pending \in RouteTables
    /\ resolutions = [r \in RouteFields |-> 0]
    /\ handlers = [r \in RouteFields |-> NotRegistered]
    /\ parked = IdleLocals
    /\ route = "none"
    /\ id = ""
    /\ pc = "Idle"
    /\ request = ZeroRequest
    /\ options = <<>>
    /\ dest = <<>>
    /\ model = ZeroModel
    /\ fieldValue = NoValue
    /\ addition = <<>>
    /\ calls = <<>>
    /\ response = NoResponse
    /\ trace = <<>>

\* GetFieldHandler with a name the resolver rejects kept as it was given
RegisterFieldRouteKeepsUnknown ==
    /\ phase = "startup" /\ pending # <<>>
    /\ LET name == Head(pending)
           f == NameToField(name)
       IN  /\ resolutions' = [resolutions EXCEPT ![name] = @ + 1]
           /\ handlers' = [handlers EXCEPT ![name] = IF f = UnknownField THEN name ELSE f]
           /\ pending' = Tail(pending)
           /\ phase' = IF Tail(pending) = <<>> THEN "serving" ELSE "startup"
    /\ UNCHANGED <<parked, route, id, pc, request, options, dest, model, fieldValue,
                   addition, calls, response, trace>>

\* GetFieldHandler[T](idParam, field): field = NameToField(field, *new(T)), then
\* the closure is returned; a name that does not resolve stops the program
\* while its routes are being registered.  The last registration starts serving.
RegisterFieldRoute ==
    /\ phase = "startup" /\ pending # <<>>
    /\ LET name == Head(pending)
           f == NameToField(name)
       IN  /\ resolutions' = [resolutions EXCEPT ![name] = @ + 1]
           /\ IF f = UnknownField
              THEN /\ phase' = "fatal"
                   /\ UNCHANGED <<handlers, pending>>
              ELSE /\ handlers' = [handlers EXCEPT ![name] = f]
                   /\ pending' = Tail(pending)
                   /\ phase' = IF Tail(pending) = <<>> THEN "serving" ELSE "startup"
    /\ UNCHANGED <<parked, route, id, pc, request, options, dest, model, fieldValue,
                   addition, calls, response, trace>>

\* the routes a request can reach: those with a handler
Registered == {"List", "GetByID"} \cup {r \in RouteFields : handlers[r] # NotRegistered}

\* A request reaches one of the registered handlers.
Arrive ==
    /\ phase = "serving"
    /\ pc \in {"Idle", "Responded"}
    /\ \E r \in Registered, i \in IDs :
          /\ r = "List" => i = ""
          /\ route' = r
          /\ id' = i
    /\ pc' = "Start"
    /\ request' = ZeroRequest
    /\ options' = <<>>
    /\ dest' = <<>>
    /\ model' = ZeroModel
    /\ fieldValue' = NoValue
    /\ addition' = <<>>
    /\ calls' = <<>>
    /\ response' = NoResponse
    /\ trace' = <<"Start">>
    /\ UNCHANGED outside

\* ------------------------------------------------------------ helpers

\* getModelByID without the check of the path parameter: the fetch is always made
getModelByIDNoIDCheck(opts, m, e) ==
    /\ \/ e = NoErr /\ m \in StoredModels(id)
       \/ e = ErrFetch /\ m = ZeroModel
    /\ calls' = Append(calls, FetchByIDCall(id, opts, e, m))

\* getModelByID(c, idParam, options...): returns (m, e)
getModelByID(opts, m, e) ==
    IF id = ""
    THEN /\ m = ZeroModel
         /\ e = ErrMissingID
         /\ calls' = calls
    ELSE /\ \/ e = NoErr /\ m \in StoredModels(id)
            \/ e = ErrFetch /\ m = ZeroModel
         /\ calls' = Append(calls, FetchByIDCall(id, opts, e, m))

\* getCount counting with the options of the fetch instead of the filter alone
getCountWithFetchOptions(filterBy, filterValue, total, e) ==
    /\ \/ e = NoErr /\ total \in Totals
       \/ e = ErrCount /\ total = 0
    /\ calls' = Append(calls, CountCall(options, e, total))

\* getCount[T](ctx, filterBy, filterValue): returns (total, e)
getCount(filterBy, filterValue, total, e) ==
    LET option == IF filterBy # "" /\ filterValue # ""
                  THEN <<FilterBy(filterBy, filterValue)>> ELSE <<>>
    IN  /\ \/ e = NoErr /\ total \in Totals
           \/ e = ErrCount /\ total = 0
        /\ calls' = Append(calls, CountCall(option, e, total))

\* getAssociationCount(ctx, model, field, filterBy, filterValue): returns (total, e)
getAssociationCount(m, f, filterBy, filterValue, total, e) ==
    LET opts == IF filterBy # "" /\ filterValue # ""
                THEN <<FilterBy(filterBy, filterValue)>> ELSE <<>>
    IN  /\ \/ e = NoErr /\ total \in Totals
           \/ e = ErrCount /\ total = 0
        /\ calls' = Append(calls, CountAssociationCall(m, f, opts, e, total))

Errors == {NoErr, ErrMissingID, ErrFetch, ErrCount}
Models == {ZeroModel} \cup UNION {StoredModels(i) : i \in IDs}

\* ---------------------------------------------------------- GetListHandler

\* ListBind without the return after ResponseError: the handler goes on
ListBindNoReturn ==
    /\ route = "List" /\ pc = "Start"
    /\ \/ /\ request' \in GetRequestBody
          /\ UNCHANGED response
       \/ /\ response' = ResponseError(CodeBadRequest, ErrBind)
          /\ UNCHANGED request
    /\ pc' = "Decoded"
    /\ trace' = Append(trace, pc')
    /\ UNCHANGED <<outside, route, id, options, dest, model, fieldValue, addition, calls>>

\* if err := c.ShouldBind(&request); err != nil { ResponseError(c, CodeBadRequest, err); return }
ListBind ==
    /\ route = "List" /\ pc = "Start"
    /\ \/ /\ request' \in GetRequestBody
          /\ pc' = "Decoded"
          /\ UNCHANGED response
       \/ /\ response' = ResponseError(CodeBadRequest, ErrBind)
          /\ pc' = "Responded"
          /\ UNCHANGED request
    /\ trace' = Append(trace, pc')
    /\ UNCHANGED <<outside, route, id, options, dest, model, fieldValue, addition, calls>>

\* options := buildQueryOptions(request)
ListBuildOptions ==
    /\ route = "List" /\ pc = "Decoded"
    /\ options' = buildQueryOptions(request)
    /\ pc' = "OptionsBuilt"
    /\ trace' = Append(trace, pc')
    /\ UNCHANGED <<outside, route, id, request, dest, model, fieldValue, addition, calls, response>>

\* ListFetch in a retry loop: a failed GetMany is tried again
ListFetchRetries ==
    /\ route = "List" /\ pc = "OptionsBuilt"
    /\ \/ /\ dest' \in Collections
          /\ calls' = Append(calls, FetchManyCall(options, NoErr, dest'))
          /\ pc' = "Fetched"
          /\ trace' = Append(trace, pc')
       \/ /\ calls' = Append(calls, FetchManyCall(options, ErrFetch, <<>>))
          /\ UNCHANGED <<dest, pc, trace>>
    /\ UNCHANGED <<outside, route, id, request, options, model, fieldValue, addition, response>>

\* ListFetch with the error of GetMany dropped: the handler goes on with an empty dest
ListFetchIgnoresError ==
    /\ route = "List" /\ pc = "OptionsBuilt"
    /\ \/ /\ dest' \in Collections
          /\ calls' = Append(calls, FetchManyCall(options, NoErr, dest'))
       \/ /\ calls' = Append(calls, FetchManyCall(options, ErrFetch, <<>>))
          /\ UNCHANGED dest
    /\ pc' = "Fetched"
    /\ trace' = Append(trace, pc')
    /\ UNCHANGED <<outside, route, id, request, options, model, fieldValue, addition, response>>

\* err := service.GetMany[T](c, &dest, options...)
ListFetch ==
    /\ route = "List" /\ pc = "OptionsBuilt"
    /\ \/ /\ dest' \in Collections
          /\ calls' = Append(calls, FetchManyCall(options, NoErr, dest'))
          /\ pc' = "Fetched"
          /\ UNCHANGED response
       \/ /\ calls' = Append(calls, FetchManyCall(options, ErrFetch, <<>>))
          /\ response' = ResponseError(CodeProcessFailed, ErrFetch)
          /\ pc' = "Responded"
          /\ UNCHANGED dest
    /\ trace' = Append(trace, pc')
    /\ UNCHANGED <<outside, route, id, request, options, model, fieldValue, addition>>

\* ListCount with a failed count treated like a failed fetch
ListCountFatal ==
    /\ route = "List" /\ pc = "Fetched"
    /\ IF request.Total
       THEN \E total \in Totals, e \in Errors :
               /\ getCount(request.FilterBy, request.FilterValue, total, e)
               /\ IF e # NoErr
                  THEN /\ response' = ResponseError(CodeProcessFailed, e)
                       /\ pc' = "Responded"
                       /\ UNCHANGED addition
                  ELSE /\ addition' = Append(addition, TotalAddendum(total))
                       /\ pc' = "CountedOrSkipped"
                       /\ UNCHANGED response
       ELSE /\ pc' = "CountedOrSkipped"
            /\ UNCHANGED <<addition, calls, response>>
    /\ trace' = Append(trace, pc')
    /\ UNCHANGED <<outside, route, id, request, options, dest, model, fieldValue>>

\* ListCount with the test of request.Total dropped: the count is always made
ListCountAlways ==
    /\ route = "List" /\ pc = "Fetched"
    /\ \E total \in Totals, e \in Errors :
          /\ getCount(request.FilterBy, request.FilterValue, total, e)
          /\ addition' = IF e # NoErr
                         THEN Append(addition, TotalErrorAddendum(e))
                         ELSE Append(addition, TotalAddendum(total))
    /\ pc' = "CountedOrSkipped"
    /\ trace' = Append(trace, pc')
    /\ UNCHANGED <<outside, route, id, request, options, dest, model, fieldValue, response>>

\* if request.Total { total, err := getCount[T](c, request.FilterBy, request.FilterValue) ... }
ListCount ==
    /\ route = "List" /\ pc = "Fetched"
    /\ IF request.Total
       THEN \E total \in Totals, e \in Errors :
               /\ getCount(request.FilterBy, request.FilterValue, total, e)
               /\ addition' = IF e # NoErr
                              THEN Append(addition, TotalErrorAddendum(e))
                              ELSE Append(addition, TotalAddendum(total))
       ELSE UNCHANGED <<addition, calls>>
    /\ pc' = "CountedOrSkipped"
    /\ trace' = Append(trace, pc')
    /\ UNCHANGED <<outside, route, id, request, options, dest, model, fieldValue, response>>

\* ListRespond answering with the page window applied to dest a second time
ListRespondTruncates ==
    /\ route = "List" /\ pc = "CountedOrSkipped"
    /\ response' = ResponseSuccess(
                       ListData(IF request.Limit > 0 /\ Len(dest) > 1
                                THEN SubSeq(dest, 1, 1) ELSE dest), addition)
    /\ pc' = "Responded"
    /\ trace' = Append(trace, pc')
    /\ UNCHANGED <<outside, route, id, request, options, dest, model, fieldValue, addition, calls>>

\* ResponseSuccess(c, dest, addition...)
ListRespond ==
    /\ route = "List" /\ pc = "CountedOrSkipped"
    /\ response' = ResponseSuccess(ListData(dest), addition)
    /\ pc' = "Responded"
    /\ trace' = Append(trace, pc')
    /\ UNCHANGED <<outside, route, id, request, options, dest, model, fieldValue, addition, calls>>

GetListHandler ==
    \/ ListBind
    \/ ListBuildOptions
    \/ ListFetch
    \/ ListCount
    \/ ListRespond

\* ---------------------------------------------------------- GetByIDHandler

ByIDBind ==
    /\ route = "GetByID" /\ pc = "Start"
    /\ \/ /\ request' \in GetRequestBody
          /\ pc' = "Decoded"
          /\ UNCHANGED response
       \/ /\ response' = ResponseError(CodeBadRequest, ErrBind)
          /\ pc' = "Responded"
          /\ UNCHANGED request
    /\ trace' = Append(trace, pc')
    /\ UNCHANGED <<outside, route, id, options, dest, model, fieldValue, addition, calls>>

ByIDBuildOptions ==
    /\ route = "GetByID" /\ pc = "Decoded"
    /\ options' = buildQueryOptions(request)
    /\ pc' = "OptionsBuilt"
    /\ trace' = Append(trace, pc')
    /\ UNCHANGED <<outside, route, id, request, dest, model, fieldValue, addition, calls, response>>

\* ByIDFetch without the return after ResponseError: the handler goes on
ByIDFetchNoReturn ==
    /\ route = "GetByID" /\ pc = "OptionsBuilt"
    /\ \E m \in Models, e \in Errors :
          /\ getModelByID(options, m, e)
          /\ model' = m
          /\ IF e # NoErr
             THEN response' = ResponseError(CodeProcessFailed, e)
             ELSE UNCHANGED response
    /\ pc' = "Fetched"
    /\ trace' = Append(trace, pc')
    /\ UNCHANGED <<outside, route, id, request, options, dest, fieldValue, addition>>

\* dest, err := getModelByID[T](c, idParam, options...)
ByIDFetch ==
    /\ route = "GetByID" /\ pc = "OptionsBuilt"
    /\ \E m \in Models, e \in Errors :
          /\ getModelByID(options, m, e)
          /\ model' = m
          /\ IF e # NoErr
             THEN /\ response' = ResponseError(CodeProcessFailed, e)
                  /\ pc' = "Responded"
             ELSE /\ pc' = "Fetched"
                  /\ UNCHANGED response
    /\ trace' = Append(trace, pc')
    /\ UNCHANGED <<outside, route, id, request, options, dest, fieldValue, addition>>

\* ResponseSuccess(c, dest)
ByIDRespond ==
    /\ route = "GetByID" /\ pc = "Fetched"
    /\ response' = ResponseSuccess(ModelData(model), <<>>)
    /\ pc' = "Responded"
    /\ trace' = Append(trace, pc')
    /\ UNCHANGED <<outside, route, id, request, options, dest, model, fieldValue, addition, calls>>

GetByIDHandler ==
    \/ ByIDBind
    \/ ByIDBuildOptions
    \/ ByIDFetch
    \/ ByIDRespond

\* --------------------------------------------------------- GetFieldHandler

\* FieldBind with the field resolved in the closure, for every request
FieldBindResolvesField ==
    /\ route \in RouteFields /\ pc = "Start"
    /\ resolutions' = [resolutions EXCEPT ![route] = @ + 1]
    /\ handlers' = [handlers EXCEPT ![route] = NameToField(route)]
    /\ \/ /\ request' \in GetRequestBody
          /\ pc' = "Decoded"
          /\ UNCHANGED response
       \/ /\ response' = ResponseError(CodeBadRequest, ErrBind)
          /\ pc' = "Responded"
          /\ UNCHANGED request
    /\ trace' = Append(trace, pc')
    /\ UNCHANGED <<phase, pending, parked, route, id, options, dest, model, fieldValue,
                   addition, calls>>

FieldBind ==
    /\ route \in RouteFields /\ pc = "Start"
    /\ \/ /\ request' \in GetRequestBody
          /\ pc' = "Decoded"
          /\ UNCHANGED response
       \/ /\ response' = ResponseError(CodeBadRequest, ErrBind)
          /\ pc' = "Responded"
          /\ UNCHANGED request
    /\ trace' = Append(trace, pc')
    /\ UNCHANGED <<outside, route, id, options, dest, model, fieldValue, addition, calls>>

FieldBuildOptions ==
    /\ route \in RouteFields /\ pc = "Decoded"
    /\ options' = buildQueryOptions(request)
    /\ pc' = "OptionsBuilt"
    /\ trace' = Append(trace, pc')
    /\ UNCHANGED <<outside, route, id, request, dest, model, fieldValue, addition, calls, response>>

\* the forced Preload with the user's options beside it instead of nested in it
FieldFetchOptionsFlat(f, opts) == <<Preload(f, <<>>)>> \o opts

\* service.Preload(field, options...), the only option given to getModelByID
FieldFetchOptions(f, opts) == <<Preload(f, opts)>>

\* model, err := getModelByID[T](c, idParam, service.Preload(field, options...))
FieldFetch ==
    /\ route \in RouteFields /\ pc = "OptionsBuilt"
    /\ \E m \in Models, e \in Errors :
          /\ getModelByID(FieldFetchOptions(handlers[route], options), m, e)
          /\ model' = m
          /\ IF e # NoErr
             THEN /\ response' = ResponseError(CodeProcessFailed, e)
                  /\ pc' = "Responded"
             ELSE /\ pc' = "Fetched"
                  /\ UNCHANGED response
    /\ trace' = Append(trace, pc')
    /\ UNCHANGED <<outside, route, id, request, options, dest, fieldValue, addition>>

\* the count condition without the test of the field's kind
wantsAssociationCountAnyKind(req, fv) == req.Total

\* if request.Total && fieldValue.Kind() == reflect.Slice
wantsAssociationCount(req, fv) == req.Total /\ fv.kind = "Slice"

\* FieldCount with a failed association count treated like a failed fetch
FieldCountFatal ==
    /\ route \in RouteFields /\ pc = "Fetched"
    /\ fieldValue' = FieldByName(model, handlers[route])
    /\ IF request.Total /\ fieldValue'.kind = "Slice"
       THEN \E total \in Totals, e \in Errors :
               /\ getAssociationCount(model, handlers[route],
                                      request.FilterBy, request.FilterValue, total, e)
               /\ IF e # NoErr
                  THEN /\ response' = ResponseError(CodeProcessFailed, e)
                       /\ pc' = "Responded"
                       /\ UNCHANGED addition
                  ELSE /\ addition' = Append(addition, TotalAddendum(total))
                       /\ pc' = "CountedOrSkipped"
                       /\ UNCHANGED response
       ELSE /\ pc' = "CountedOrSkipped"
            /\ UNCHANGED <<addition, calls, response>>
    /\ trace' = Append(trace, pc')
    /\ UNCHANGED <<outside, route, id, request, options, dest, model>>

\* fieldValue := ...FieldByName(field); if request.Total && ... { getAssociationCount(...) }
FieldCount ==
    /\ route \in RouteFields /\ pc = "Fetched"
    /\ fieldValue' = FieldByName(model, handlers[route])
    /\ IF wantsAssociationCount(request, fieldValue')
       THEN \E total \in Totals, e \in Errors :
               /\ getAssociationCount(model, handlers[route],
                                      request.FilterBy, request.FilterValue, total, e)
               /\ addition' = IF e # NoErr
                              THEN Append(addition, TotalErrorAddendum(e))
                              ELSE Append(addition, TotalAddendum(total))
       ELSE UNCHANGED <<addition, calls>>
    /\ pc' = "CountedOrSkipped"
    /\ trace' = Append(trace, pc')
    /\ UNCHANGED <<outside, route, id, request, options, dest, model, response>>

\* ResponseSuccess(c, fieldValue.Interface(), addition...)
FieldRespond ==
    /\ route \in RouteFields /\ pc = "CountedOrSkipped"
    /\ response' = IF fieldValue.kind = "Invalid" THEN Panicked
                   ELSE ResponseSuccess(FieldData(fieldValue.value), addition)
    /\ pc' = "Responded"
    /\ trace' = Append(trace, pc')
    /\ UNCHANGED <<outside, route, id, request, options, dest, model, fieldValue, addition, calls>>

GetFieldHandler ==
    \/ FieldBind
    \/ FieldBuildOptions
    \/ FieldFetch
    \/ FieldCount
    \/ FieldRespond

\* ------------------------------------------------------------ specification

Next ==
    \/ RegisterFieldRoute
    \/ Arrive
    \/ GetListHandler
    \/ GetByIDHandler
    \/ GetFieldHandler

Spec == Init /\ [][Next]_vars

\* ------------------------------------------------- two requests in flight

\* the locals of the running request
Cur ==
    [route |-> route, id |-> id, pc |-> pc, request |-> request, options |-> options,
     dest |-> dest, model |-> model, fieldValue |-> fieldValue, addition |-> addition,
     calls |-> calls, response |-> response, trace |-> trace]

\* the scheduler with `addition` declared outside the closure: both requests
\* append to the same slice
SwitchSharingAddition ==
    /\ phase = "serving"
    /\ parked' = Cur
    /\ route' = parked.route
    /\ id' = parked.id
    /\ pc' = parked.pc
    /\ request' = parked.request
    /\ options' = parked.options
    /\ dest' = parked.dest
    /\ model' = parked.model
    /\ fieldValue' = parked.fieldValue
    /\ calls' = parked.calls
    /\ response' = parked.response
    /\ trace' = parked.trace
    /\ UNCHANGED <<phase, pending, resolutions, handlers, addition>>

\* gin runs every request in its own goroutine, each call of the closure with
\* its own request, options, dest, model, fieldValue and addition: the
\* scheduler leaves the running request where it is and goes on with the other
Switch ==
    /\ phase = "serving"
    /\ parked' = Cur
    /\ route' = parked.route
    /\ id' = parked.id
    /\ pc' = parked.pc
    /\ request' = parked.request
    /\ options' = parked.options
    /\ dest' = parked.dest
    /\ model' = parked.model
    /\ fieldValue' = parked.fieldValue
    /\ addition' = parked.addition
    /\ calls' = parked.calls
    /\ response' = parked.response
    /\ trace' = parked.trace
    /\ UNCHANGED <<phase, pending, resolutions, handlers>>

\* the decoded requests of the two-request runs: the empty query, and
\* ?limit=10&offset=5&order_by=id&desc=true&filter_by=name&filter_value=John&preload=Product&total=true
FullRequest ==
    [Limit |-> 10, Offset |-> 5, OrderBy |-> "id", Descending |-> TRUE,
     FilterBy |-> "name", FilterValue |-> "John", Preload |-> <<"Product">>, Total |-> TRUE]
ConcRequests == {ZeroRequest, FullRequest}

\* a step of the running request's handler
ConcStep ==
    /\ GetListHandler \/ GetByIDHandler \/ GetFieldHandler
    /\ request' \in ConcRequests

ConcNext ==
    \/ RegisterFieldRoute
    \/ Arrive
    \/ ConcStep
    \/ Switch

ConcSpec == Init /\ [][ConcNext]_vars

\* ------------------------------------------------------------ properties

\* the entries of `calls` for one persistence operation
CallsOf(op) == SelectSeq(calls, LAMBDA c : c.op = op)
\* the options of one variant in an option sequence
OptsOfType(opts, t) == SelectSeq(opts, LAMBDA o : o.type = t)
\* the addenda of one key
AddendaOf(add, k) == SelectSeq(add, LAMBDA a : a.key = k)
Decoded == \E i \in 1..Len(trace) : trace[i] = "Decoded"
OptionsWereBuilt == \E i \in 1..Len(trace) : trace[i] = "OptionsBuilt"

\* C1: List, wantTotal = true, FetchMany succeeded and Count failed: no error
\* response is ever written, and the response is a success carrying the rows
\* FetchMany returned with exactly one addendum, totalError (and no total).
C1_ListCountFailureNonFatal ==
    (/\ route = "List"
     /\ request.Total
     /\ \E i \in 1..Len(calls) : calls[i].op = "FetchMany" /\ calls[i].err = NoErr
     /\ \E j \in 1..Len(calls) : calls[j].op = "Count" /\ calls[j].err # NoErr)
    => /\ response.kind # "error"
       /\ pc \in {"CountedOrSkipped", "Responded"}
       /\ pc = "Responded" =>
             /\ response.kind = "success"
             /\ response.data = ListData(CallsOf("FetchMany")[1].rows)
             /\ response.addition = <<TotalErrorAddendum(CallsOf("Count")[1].err)>>
             /\ AddendaOf(response.addition, "total") = <<>>

C1_Witness ==
    /\ route = "List" /\ pc = "Responded" /\ request.Total
    /\ Len(calls) = 2 /\ calls[1].err = NoErr /\ calls[1].rows # <<>>
    /\ calls[2].op = "Count" /\ calls[2].err = ErrCount
    /\ response.kind = "success"

\* C2: List, FetchMany failed: the request has ended with the error response
\* (ProcessFailed, the fetch error) whatever wantTotal is; Count is not called
\* and the response has neither data nor addenda.
C2_ListFetchFailureFatal ==
    (/\ route = "List"
     /\ \E i \in 1..Len(calls) : calls[i].op = "FetchMany" /\ calls[i].err # NoErr)
    => /\ pc = "Responded"
       /\ response = ResponseError(CodeProcessFailed, CallsOf("FetchMany")[1].err)
       /\ response.data = NoData
       /\ response.addition = <<>>
       /\ CallsOf("Count") = <<>>
       /\ Len(calls) = 1

C2_Witness ==
    /\ route = "List" /\ pc = "Responded" /\ request.Total
    /\ Len(calls) = 1 /\ calls[1].op = "FetchMany" /\ calls[1].err = ErrFetch
    /\ response.kind = "error" /\ response.code = CodeProcessFailed

\* C3, as claimed: GetByID with an empty path identifier never calls FetchByID
\* and ends in an error response carrying ErrMissingID.
C3_EmptyIDEndsInMissingID ==
    (route = "GetByID" /\ id = "")
    => /\ CallsOf("FetchByID") = <<>>
       /\ pc = "Responded" => response.kind = "error" /\ response.err = ErrMissingID

\* C3, amended: GetByID with an empty path identifier never calls the
\* persistence layer; the request ends in an error response, which carries
\* ErrMissingID when the query parameters were decoded and the bind error when
\* they were not.
C3_EmptyIDNeverFetches ==
    (route = "GetByID" /\ id = "")
    => /\ calls = <<>>
       /\ pc \notin {"Fetched", "CountedOrSkipped"}
       /\ pc = "Responded" =>
             /\ response.kind = "error"
             /\ response.err = (IF Decoded THEN ErrMissingID ELSE ErrBind)

C3_Witness ==
    /\ route = "GetByID" /\ id = "" /\ pc = "Responded"
    /\ OptionsWereBuilt /\ request.Preload # <<>>
    /\ response.kind = "error" /\ response.err = ErrMissingID
    /\ calls = <<>>

\* C4: GetByID reports ErrMissingID with the BadRequest code, like a decode
\* failure, and not with ProcessFailed.
C4_MissingIDIsBadRequest ==
    (route = "GetByID" /\ response.kind = "error" /\ response.err = ErrMissingID)
    => response.code = CodeBadRequest /\ response.code # CodeProcessFailed

\* C5: GetByID with a non-empty id hands FetchByID only Preload options: the
\* Page, OrderBy and FilterBy options of the request are left out and the
\* request is not rejected for supplying them.
C5_ByIDFetchGetsOnlyPreloads ==
    (route = "GetByID" /\ id # "" /\ Decoded)
    => /\ \A i \in 1..Len(calls) :
             calls[i].op = "FetchByID" =>
                /\ OptsOfType(calls[i].options, "Preload") = calls[i].options
                /\ OptsOfType(calls[i].options, "Page") = <<>>
                /\ OptsOfType(calls[i].options, "OrderBy") = <<>>
                /\ OptsOfType(calls[i].options, "FilterBy") = <<>>
       /\ response.code # CodeBadRequest

\* whether the request carries a usable filter (both sides non-empty)
HasFilter == request.FilterBy # "" /\ request.FilterValue # ""
FetchSucceeded(op) == \E i \in 1..Len(calls) : calls[i].op = op /\ calls[i].err = NoErr
FetchFailed(op) == \E i \in 1..Len(calls) : calls[i].op = op /\ calls[i].err # NoErr

\* C6: List: the options given to Count are at most one option, a FilterBy,
\* present iff filter_by and filter_value are both non-empty, with the field
\* and value of the FilterBy given to FetchMany; no Page, OrderBy or Preload.
C6_CountGetsOnlyTheFilter ==
    route = "List" =>
       \A i \in 1..Len(calls) :
          calls[i].op = "Count" =>
             LET o == calls[i].options
             IN  /\ Len(o) <= 1
                 /\ OptsOfType(o, "FilterBy") = o
                 /\ OptsOfType(o, "Page") = <<>>
                 /\ OptsOfType(o, "OrderBy") = <<>>
                 /\ OptsOfType(o, "Preload") = <<>>
                 /\ (o # <<>>) <=> HasFilter
                 /\ o = OptsOfType(CallsOf("FetchMany")[1].options, "FilterBy")
                 /\ o # <<>> => /\ o[1].field = request.FilterBy
                                /\ o[1].value = request.FilterValue

C6_Witness ==
    /\ route = "List" /\ HasFilter
    /\ request.Limit > 0 /\ request.OrderBy # "" /\ Len(request.Preload) = 2
    /\ Len(calls) = 2 /\ calls[2].op = "Count"
    /\ Len(calls[1].options) = 5
    /\ calls[2].options = <<[type |-> "FilterBy", field |-> "name", value |-> "John"]>>

\* the relation paths an option sequence makes the store load: a Preload
\* nested in another loads the path relative to the outer one
RECURSIVE EagerPaths(_, _)
EagerPaths(opts, prefix) ==
    UNION {IF opts[i].type = "Preload"
           THEN {Append(prefix, opts[i].path)}
                   \cup EagerPaths(opts[i].options, Append(prefix, opts[i].path))
           ELSE {} : i \in 1..Len(opts)}

\* C7: GetNestedField: the parent is fetched by id with exactly one top-level
\* option, the Preload of the resolved field, holding every option built from
\* the request; a user preload path P loads F.P and never P on the parent.
C7_FieldFetchNestsUserOptions ==
    route \in RouteFields =>
       \A i \in 1..Len(calls) :
          calls[i].op = "FetchByID" =>
             LET o == calls[i].options
                 F == handlers[route]
             IN  /\ calls[i].id = id
                 /\ Len(o) = 1
                 /\ o[1].type = "Preload"
                 /\ o[1].path = F
                 /\ o[1].options = options
                 /\ Len(OptsOfType(o[1].options, "Preload")) = Len(request.Preload)
                 /\ EagerPaths(o, <<>>) =
                       {<<F>>} \cup {<<F, request.Preload[k]>> : k \in 1..Len(request.Preload)}
                 /\ \A k \in 1..Len(request.Preload) :
                       <<request.Preload[k]>> \notin EagerPaths(o, <<>>)

C7_Witness ==
    /\ route = "orders" /\ request.Preload = <<"Product">> /\ request.Limit > 0
    /\ Len(calls) = 1 /\ calls[1].op = "FetchByID" /\ calls[1].err = NoErr
    /\ <<"Orders", "Product">> \in EagerPaths(calls[1].options, <<>>)

\* C8: GetNestedField, parent fetched: CountAssociation is called iff
\* wantTotal and the extracted value is a collection; the call is for the
\* fetched parent and the resolved field and gets only the FilterBy (iff both
\* filter parameters are non-empty).  With wantTotal and a value that is no
\* collection there is no count and the success response has no addendum.
C8_AssociationCountOnlyForCollections ==
    route \in RouteFields =>
       LET cnt == CallsOf("CountAssociation")
       IN  /\ cnt # <<>> => pc \in {"CountedOrSkipped", "Responded"}
           /\ (pc \in {"CountedOrSkipped", "Responded"} /\ FetchSucceeded("FetchByID")) =>
                 /\ (cnt # <<>>) <=> (request.Total /\ fieldValue.kind = "Slice")
                 /\ fieldValue.kind = FieldKind[handlers[route]]
                 /\ Len(cnt) <= 1
                 /\ cnt # <<>> =>
                       /\ cnt[1].model = CallsOf("FetchByID")[1].got
                       /\ cnt[1].field = handlers[route]
                       /\ Len(cnt[1].options) <= 1
                       /\ OptsOfType(cnt[1].options, "FilterBy") = cnt[1].options
                       /\ (cnt[1].options # <<>>) <=> HasFilter
                       /\ cnt[1].options # <<>> =>
                             /\ cnt[1].options[1].field = request.FilterBy
                             /\ cnt[1].options[1].value = request.FilterValue
                 /\ (request.Total /\ fieldValue.kind # "Slice" /\ pc = "Responded") =>
                       /\ response.kind = "success"
                       /\ response.addition = <<>>

C8_Witness ==
    /\ route = "orders" /\ pc = "Responded" /\ request.Total /\ HasFilter
    /\ request.Limit > 0 /\ request.Preload # <<>>
    /\ Len(calls) = 2 /\ calls[2].op = "CountAssociation"
    /\ calls[2].model.Orders # <<>>
    /\ calls[2].options = <<[type |-> "FilterBy", field |-> "name", value |-> "John"]>>

\* the non-collection case of C8
C8_WitnessNoCollection ==
    /\ route = "profile" /\ pc = "Responded" /\ request.Total
    /\ response.kind = "success" /\ Len(calls) = 1

\* C9: GetNestedField: a failed parent fetch ends the request with the error
\* response (ProcessFailed, the error), with no field extracted and no
\* CountAssociation; a failed CountAssociation after a successful fetch still
\* ends in a success carrying the field's value and a totalError addendum.
C9_FieldFetchFatalCountNonFatal ==
    route \in RouteFields =>
       /\ ((OptionsWereBuilt /\ pc = "Responded" /\ ~FetchSucceeded("FetchByID"))
              \/ FetchFailed("FetchByID")) =>
             /\ pc = "Responded"
             /\ response.kind = "error"
             /\ response.code = CodeProcessFailed
             /\ response.err = (IF id = "" THEN ErrMissingID ELSE CallsOf("FetchByID")[1].err)
             /\ fieldValue = NoValue
             /\ CallsOf("CountAssociation") = <<>>
       /\ (FetchSucceeded("FetchByID") /\ FetchFailed("CountAssociation")) =>
             /\ response.kind # "error"
             /\ pc \in {"CountedOrSkipped", "Responded"}
             /\ pc = "Responded" =>
                   /\ response.kind = "success"
                   /\ response.data =
                         FieldData(CallsOf("FetchByID")[1].got[handlers[route]])
                   /\ response.addition =
                         <<TotalErrorAddendum(CallsOf("CountAssociation")[1].err)>>

C9_Witness ==
    /\ route = "orders" /\ pc = "Responded"
    /\ Len(calls) = 2 /\ calls[1].err = NoErr /\ calls[1].got.Orders # <<>>
    /\ calls[2].op = "CountAssociation" /\ calls[2].err = ErrCount
    /\ response.kind = "success" /\ response.data.value = calls[1].got.Orders

\* the fatal half of C9
C9_WitnessFetchFailed ==
    /\ route = "orders" /\ pc = "Responded" /\ request.Total
    /\ Len(calls) = 1 /\ calls[1].err = ErrFetch /\ response.kind = "error"

\* C10: buildQueryOptions: the built sequence has a Page{limit, offset} iff
\* limit > 0, an OrderBy{orderBy, descending} iff orderBy is non-empty and a
\* FilterBy{filterField, filterValue} iff both are non-empty, each at most
\* once; everything else in it is one Preload per preload path.
C10_BuildEmitsSparseOptions ==
    OptionsWereBuilt =>
       LET pages == OptsOfType(options, "Page")
           orders == OptsOfType(options, "OrderBy")
           filters == OptsOfType(options, "FilterBy")
           preloads == OptsOfType(options, "Preload")
       IN  /\ Len(pages) = (IF request.Limit > 0 THEN 1 ELSE 0)
           /\ pages # <<>> => /\ pages[1].limit = request.Limit
                              /\ pages[1].offset = request.Offset
           /\ Len(orders) = (IF request.OrderBy # "" THEN 1 ELSE 0)
           /\ orders # <<>> => /\ orders[1].field = request.OrderBy
                               /\ orders[1].desc = request.Descending
           /\ Len(filters) = (IF HasFilter THEN 1 ELSE 0)
           /\ filters # <<>> => /\ filters[1].field = request.FilterBy
                                /\ filters[1].value = request.FilterValue
           /\ Len(options) = Len(pages) + Len(orders) + Len(filters) + Len(preloads)
           /\ Len(preloads) = Len(request.Preload)

C10_Witness ==
    /\ pc = "OptionsBuilt"
    /\ request.Limit = 10 /\ request.Offset = 5 /\ request.OrderBy = "id" /\ request.Descending
    /\ request.FilterBy = "name" /\ request.FilterValue = ""
    /\ options = <<[type |-> "Page", limit |-> 10, offset |-> 5],
                   [type |-> "OrderBy", field |-> "id", desc |-> TRUE]>>

\* limit <= 0 and the other one-sided filter
C10_WitnessNoPage ==
    /\ pc = "OptionsBuilt" /\ request.Limit = -1 /\ request.Offset = 5
    /\ request.FilterBy = "" /\ request.FilterValue = "John" /\ request.OrderBy = ""
    /\ request.Preload = <<>> /\ options = <<>>

\* the paths of a sequence of Preload options, in order
PathsOf(preloads) == [i \in 1..Len(preloads) |-> preloads[i].path]

\* C11: buildQueryOptions: the Preload options of the built sequence are one
\* per entry of request.Preload, in the same order, repeated paths included;
\* they follow the Page, OrderBy and FilterBy options and nest nothing.
C11_PreloadsKeepInputOrder ==
    OptionsWereBuilt =>
       LET preloads == OptsOfType(options, "Preload")
           others == Len(options) - Len(preloads)
       IN  /\ PathsOf(preloads) = request.Preload
           /\ \A i \in 1..Len(preloads) : preloads[i].options = <<>>
           /\ \A i \in 1..Len(options) : (options[i].type = "Preload") <=> (i > others)

C11_Witness ==
    /\ pc = "OptionsBuilt"
    /\ request.Preload = <<"Items", "Product">>
    /\ request.Limit > 0 /\ HasFilter
    /\ Len(options) = 4
    /\ options[3].path = "Items" /\ options[4].path = "Product"

\* a repeated path is kept twice
C11_WitnessRepeated ==
    /\ pc = "OptionsBuilt" /\ request.Preload = <<"Product", "Product">>
    /\ Len(OptsOfType(options, "Preload")) = 2

\* C12: in the three handlers a request whose query parameters fail to
\* decode is answered with the error response (BadRequest, the bind error)
\* at once, and no persistence operation is called for it.
C12_BindFailureIsBadRequest ==
    /\ ~Decoded => calls = <<>>
    /\ (pc = "Responded" /\ ~Decoded) =>
          /\ route \in Routes
          /\ trace = <<"Start", "Responded">>
          /\ response = ResponseError(CodeBadRequest, ErrBind)
    /\ (response.kind = "error" /\ response.err = ErrBind) =>
          /\ pc = "Responded"
          /\ ~Decoded
          /\ response.code = CodeBadRequest
          /\ calls = <<>>

C12_Witness ==
    /\ route = "orders" /\ id = "123" /\ pc = "Responded"
    /\ trace = <<"Start", "Responded">>
    /\ response.kind = "error" /\ response.code = CodeBadRequest /\ response.err = ErrBind
    /\ calls = <<>>

\* C13: List, wantTotal = true, FetchMany returned the rows D and Count
\* returned n: the response is a success whose data is exactly D and whose
\* only addendum is total = n, whatever limit, offset and order are.
C13_ListSuccessCarriesRowsAndTotal ==
    (/\ route = "List" /\ pc = "Responded"
     /\ request.Total
     /\ FetchSucceeded("FetchMany")
     /\ FetchSucceeded("Count"))
    => /\ response.kind = "success"
       /\ response.data = ListData(CallsOf("FetchMany")[1].rows)
       /\ response.addition = <<TotalAddendum(CallsOf("Count")[1].total)>>
       /\ AddendaOf(response.addition, "totalError") = <<>>

\* ?limit=10&offset=0&order_by=id&desc=true&filter_by=name&filter_value=John&total=true
\* against a store answering 3 rows and a count of 42
C13_Witness ==
    /\ route = "List" /\ pc = "Responded"
    /\ request = [Limit |-> 10, Offset |-> 0, OrderBy |-> "id", Descending |-> TRUE,
                  FilterBy |-> "name", FilterValue |-> "John", Preload |-> <<>>,
                  Total |-> TRUE]
    /\ Len(calls) = 2 /\ calls[1].err = NoErr /\ Len(calls[1].rows) = 3
    /\ calls[2].err = NoErr /\ calls[2].total = 42
    /\ response.kind = "success" /\ Len(response.data.list) = 3
    /\ response.addition = <<[key |-> "total", total |-> 42, err |-> NoErr]>>

\* what holds of the resolved field in every state (C14)
FieldResolvedOnce ==
    /\ \A r \in RouteFields :
          /\ resolutions[r] <= 1
          /\ handlers[r] # NotRegistered => resolutions[r] = 1 /\ handlers[r] = NameToField(r)
    /\ route \in RouteFields =>
          LET F == handlers[route]
          IN  /\ phase = "serving"
              /\ resolutions[route] = 1
              /\ F = NameToField(route)
              /\ \A i \in 1..Len(calls) :
                    /\ calls[i].op = "FetchByID" => calls[i].options[1].path = F
                    /\ calls[i].op = "CountAssociation" => calls[i].field = F
              /\ fieldValue # NoValue =>
                    fieldValue = [kind |-> FieldKind[F], value |-> model[F]]

\* C14: GetNestedField: the field name is resolved once, when the handler is
\* built, and never at request time; the forced Preload, the field extraction
\* and CountAssociation of every request use that name, and no step of a
\* request changes it.
C14_FieldResolvedOnceAtConstruction ==
    /\ []FieldResolvedOnce
    /\ [][phase = "serving" => (handlers' = handlers /\ resolutions' = resolutions)]_vars

C14_Witness ==
    /\ route = "orders" /\ pc = "Responded" /\ resolutions["orders"] = 1
    /\ handlers["orders"] = "Orders"
    /\ Len(calls) = 2 /\ calls[1].options[1].path = "Orders"
    /\ calls[2].op = "CountAssociation" /\ calls[2].field = "Orders"
    /\ fieldValue.kind = "Slice" /\ fieldValue.value # <<>>

FilterOnly(req) ==
    IF req.FilterBy # "" /\ req.FilterValue # ""
    THEN <<[type |-> "FilterBy", field |-> req.FilterBy, value |-> req.FilterValue]>>
    ELSE <<>>

SoloCalls(L) ==
    LET c == L.calls
        built == buildQueryOptions(L.request)
    IN  CASE L.route = "List" ->
                /\ Len(c) <= 2
                /\ Len(c) >= 1 => c[1].op = "FetchMany" /\ c[1].options = built
                /\ Len(c) = 2 => /\ c[1].err = NoErr /\ L.request.Total
                                 /\ c[2].op = "Count"
                                 /\ c[2].options = FilterOnly(L.request)
          [] L.route = "GetByID" ->
                /\ Len(c) <= 1
                /\ Len(c) = 1 => /\ c[1].op = "FetchByID" /\ c[1].id = L.id /\ L.id # ""
                                 /\ c[1].options = built
          [] L.route \in RouteFields ->
                /\ Len(c) <= 2
                /\ Len(c) >= 1 =>
                      /\ c[1].op = "FetchByID" /\ c[1].id = L.id /\ L.id # ""
                      /\ c[1].options =
                            <<[type |-> "Preload", path |-> handlers[L.route],
                               options |-> built]>>
                /\ Len(c) = 2 => /\ c[1].err = NoErr /\ L.request.Total
                                 /\ FieldKind[handlers[L.route]] = "Slice"
                                 /\ c[2].op = "CountAssociation"
                                 /\ c[2].model = c[1].got
                                 /\ c[2].field = handlers[L.route]
                                 /\ c[2].options = FilterOnly(L.request)
          [] OTHER -> c = <<>>

SoloAddition(c) ==
    IF Len(c) < 2 THEN <<>>
    ELSE IF c[2].err # NoErr THEN <<TotalErrorAddendum(c[2].err)>>
    ELSE <<TotalAddendum(c[2].total)>>

SoloResponse(L) ==
    LET c == L.calls
    IN  IF \A i \in 1..Len(L.trace) : L.trace[i] # "Decoded"
        THEN ResponseError(CodeBadRequest, ErrBind)
        ELSE IF L.route # "List" /\ L.id = ""
        THEN ResponseError(CodeProcessFailed, ErrMissingID)
        ELSE IF c[1].err # NoErr
        THEN ResponseError(CodeProcessFailed, c[1].err)
        ELSE CASE L.route = "List" -> ResponseSuccess(ListData(c[1].rows), SoloAddition(c))
               [] L.route = "GetByID" -> ResponseSuccess(ModelData(c[1].got), <<>>)
               [] OTHER -> ResponseSuccess(FieldData(c[1].got[handlers[L.route]]),
                                           SoloAddition(c))

\* whether a finished request that fetched its data was due a count
SoloCounts(L) ==
    /\ L.request.Total
    /\ \/ L.route = "List"
       \/ L.route \in RouteFields /\ FieldKind[handlers[L.route]] = "Slice"

SoloConsistent(L) ==
    /\ SoloCalls(L)
    /\ L.pc # "Responded" => L.response = NoResponse
    /\ L.pc = "Responded" =>
          /\ (L.response.kind = "none") = FALSE
          /\ (\E i \in 1..Len(L.trace) : L.trace[i] = "Decoded") /\ (L.route = "List" \/ L.id # "")
                => Len(L.calls) >= 1
          /\ (Len(L.calls) >= 1 /\ L.calls[1].err = NoErr) =>
                (Len(L.calls) = 2 <=> SoloCounts(L))
          /\ L.response = SoloResponse(L)

\* the locals of the running request after a step
CurNext ==
    [route |-> route', id |-> id', pc |-> pc', request |-> request', options |-> options',
     dest |-> dest', model |-> model', fieldValue |-> fieldValue', addition |-> addition',
     calls |-> calls', response |-> response', trace |-> trace']

\* C16: with two requests in flight on any of the handlers, in any
\* interleaving, a step of one request writes nothing the other reads: the
\* other's locals and the resolved fields stay as they are, and each request
\* makes the persistence calls and gives the response it would make and give
\* alone with the same answers of the store.
C16_RequestsAreIndependent ==
    /\ [](SoloConsistent(Cur) /\ SoloConsistent(parked))
    /\ [][/\ parked' # parked => (parked' = Cur /\ CurNext = parked)
          /\ phase = "serving" => handlers' = handlers]_vars

C16_Witness ==
    /\ parked.route = "List" /\ parked.pc = "Fetched" /\ parked.request = FullRequest
    /\ Len(parked.calls) = 1 /\ parked.addition = <<>>
    /\ route = "orders" /\ pc = "Responded" /\ request = FullRequest
    /\ Len(calls) = 2 /\ calls[2].op = "CountAssociation"
    /\ response.kind = "success" /\ Len(response.addition) = 1

\* the positions of a request, in order
Positions == <<"Start", "Decoded", "OptionsBuilt", "Fetched", "CountedOrSkipped", "Responded">>

\* the positions before the response
Before == IF pc = "Responded" THEN SubSeq(trace, 1, Len(trace) - 1) ELSE trace

\* whether the request went all the way to its response (GetByID makes no
\* count: it answers from Fetched)
RanThrough ==
    \/ Len(Before) = 5
    \/ route = "GetByID" /\ Len(Before) = 4

\* what holds of the path of the request in every state (C17)
PathShape ==
    /\ (pc = "Idle") <=> (trace = <<>>)
    /\ trace # <<>> => trace[Len(trace)] = pc
    /\ Len(Before) <= 5
    /\ Before = SubSeq(Positions, 1, Len(Before))
    /\ pc # "Responded" => response = NoResponse
    /\ pc = "Responded" =>
          /\ Len(Before) >= 1
          /\ response.kind \in {"success", "error"}
          /\ RanThrough <=> response.kind = "success"
          /\ response.kind = "error" =>
                /\ response.code \in {CodeBadRequest, CodeProcessFailed}
                /\ response.err # NoErr
                /\ response.data = NoData
    /\ pc \notin {"Idle", "Responded"} =>
          ENABLED (GetListHandler \/ GetByIDHandler \/ GetFieldHandler)

\* C17: a request goes Start, Decoded, OptionsBuilt, Fetched, CountedOrSkipped,
\* Responded, or leaves that path for Responded with an error response; it
\* cannot stop before Responded, where exactly one envelope has been written,
\* a success or an error; the envelope is not written again and no
\* persistence call is made after it.
C17_OnePathOneResponse ==
    /\ []PathShape
    /\ [][/\ response.kind # "none" => (response' = response \/ response' = NoResponse)
          /\ pc = "Responded" => (pc' = "Start" /\ calls' = <<>> /\ response' = NoResponse)
          /\ (pc # "Responded" /\ pc' = "Responded") => response'.kind # "none"]_vars

C17_Witness ==
    /\ route = "orders" /\ pc = "Responded" /\ trace = Positions
    /\ response.kind = "success" /\ Len(calls) = 2

\* a request that left the path after its fetch failed
C17_WitnessShortCircuit ==
    /\ route = "List" /\ pc = "Responded"
    /\ trace = <<"Start", "Decoded", "OptionsBuilt", "Responded">>
    /\ response.kind = "error"

IsFetch(c) == c.op \in {"FetchMany", "FetchByID"}
IsCount(c) == c.op \in {"Count", "CountAssociation"}

\* what holds of the calls of a request in every state (C18)
AtMostOneFetchThenOneCount ==
    /\ Len(SelectSeq(calls, IsFetch)) <= 1
    /\ Len(SelectSeq(calls, IsCount)) <= 1
    /\ Len(calls) <= 2
    /\ \A i \in 1..Len(calls) :
          /\ calls[i].err # NoErr => i = Len(calls)
          /\ IsCount(calls[i]) =>
                /\ i = 2
                /\ IsFetch(calls[1])
                /\ calls[1].err = NoErr
    /\ (calls # <<>> /\ IsFetch(calls[Len(calls)]) /\ calls[Len(calls)].err # NoErr)
          => pc = "Responded"

\* C18: no retry: a request makes at most one fetch call and at most one count
\* call, a count only after its own fetch returned without error, and no call
\* at all after a call that failed.
C18_NoRetry ==
    /\ []AtMostOneFetchThenOneCount
    /\ [][/\ calls' = calls \/ calls' = <<>>
             \/ (Len(calls') = Len(calls) + 1 /\ SubSeq(calls', 1, Len(calls)) = calls)
          /\ (calls # <<>> /\ calls[Len(calls)].err # NoErr)
                => (calls' = calls \/ (calls' = <<>> /\ pc' = "Start"))]_vars

C18_Witness ==
    /\ route = "GetByID" /\ id = "123" /\ pc = "Responded" /\ request.Total
    /\ Len(calls) = 1 /\ calls[1].op = "FetchByID" /\ calls[1].err = ErrFetch
    /\ response.kind = "error"

\* a failed count, made once after the fetch
C18_WitnessCountFailed ==
    /\ route = "orders" /\ pc = "Responded" /\ Len(calls) = 2
    /\ calls[1].err = NoErr /\ calls[2].op = "CountAssociation" /\ calls[2].err = ErrCount

\* C19: a List success carries an addendum iff total=true was asked, and then
\* exactly one, keyed total or totalError; without total=true Count is never
\* called and the success carries the fetched rows alone. GetByID never calls
\* a count and its success never carries addenda, whatever total says.
C19_TotalAddendumIffAsked ==
    /\ route = "List" =>
          /\ ~request.Total => CallsOf("Count") = <<>>
          /\ CallsOf("CountAssociation") = <<>>
          /\ response.kind = "success" =>
                /\ response.addition # <<>> <=> request.Total
                /\ request.Total =>
                      /\ Len(response.addition) = 1
                      /\ response.addition[1].key \in {"total", "totalError"}
                      /\ Len(AddendaOf(response.addition, "total"))
                           + Len(AddendaOf(response.addition, "totalError")) = 1
                /\ ~request.Total =>
                      /\ response.addition = <<>>
                      /\ response.data = ListData(CallsOf("FetchMany")[1].rows)
    /\ route = "GetByID" =>
          /\ SelectSeq(calls, IsCount) = <<>>
          /\ addition = <<>>
          /\ response.kind = "success" => response.addition = <<>>

C19_Witness ==
    /\ route = "List" /\ pc = "Responded" /\ ~request.Total
    /\ response.kind = "success"
    /\ Len(calls) = 1 /\ Len(calls[1].rows) = 2
    /\ request.Limit = 10 /\ request.FilterBy = "name"

\* GetByID answering a request that asked for total=true
C19_WitnessByIDWithTotal ==
    /\ route = "GetByID" /\ pc = "Responded" /\ request.Total
    /\ response.kind = "success" /\ response.data.shape = "model"

\* List answering a request that asked for total=true, either addendum
C19_WitnessTotalAsked ==
    /\ route = "List" /\ pc = "Responded" /\ request.Total
    /\ response.kind = "success" /\ response.addition[1].key = "totalError"

====
